---------------------------- MODULE Spec2Model ----------------------------
(***************************************************************************)
(* Model of the Appwrite data-access layer of the recipe application      *)
(* (src/src/pages/LoginPage.tsx, lines 124-848) and of the signup form    *)
(* (src/src/pages/SignupPage.tsx).                                         *)
(*                                                                         *)
(* The hosted backend (accounts, sessions, the two document collections)  *)
(* is the environment: it answers every request either with its normal    *)
(* result or with a failure (Err).  A client is one  *)
(* browser running the module; every `await` of a backend response is a   *)
(* step boundary, so the calls of two clients interleave between awaits.  *)
(***************************************************************************)
EXTENDS Naturals, Sequences, FiniteSets, TLC

VARIABLES
    accounts,   \* backend: user id -> [name, password] of every account
    session,    \* backend: client -> user id of its current session, or NoUser
    profiles,   \* backend: the user-profile collection, in creation order
    recipes,    \* backend: the saved-recipes collection, document id -> document
    nextId,     \* backend: the next document id ID.unique() hands out
    proc,       \* client -> the call it is running and its position in it
    result,     \* the last completed call: who, what, its outcome, its requests
    reqs,       \* client -> backend requests its current call has issued, in order
    mac,        \* scratch state of the pure macros conversions
    cfg,        \* the identifiers import.meta.env configures
    conv,       \* a stored recipe document and what convertDocumentToRecipe makes of it
    form        \* the signup form: its fields, its inline error, the signup calls made

vars == <<accounts, session, profiles, recipes, nextId, proc, result, reqs, mac, cfg, conv, form>>

-----------------------------------------------------------------------------
(* Bounds of the model *)

MaxStrLen == 2      \* longest macro value, in characters
MaxFields == 2      \* most macro fields set in one input record
MaxProfiles == 2    \* most profile documents the collection may hold
MaxRecipes == 1     \* most recipe documents ever created
MaxPasswordLen == 9 \* longest password typed into the signup form
MaxSubmits == 2     \* most signup calls one form makes

-----------------------------------------------------------------------------
(* JavaScript values *)

\* `T | undefined` results: Some(v) or None (val keeps the sequence type)
Some(v) == [def |-> TRUE, val |-> v]
None == [def |-> FALSE, val |-> <<>>]

\* Object.keys(o) of an object modelled as a function from its keys
Keys(o) == DOMAIN o

\* a string of the macros conversions is a sequence of characters; a label
\* ("Calories") is one token, which no split or trim ever cuts
Chars == {"a", ":", " "}
IsSpace(ch) == ch = " "

Str(n) == UNION {[1..k -> Chars] : k \in 0..n}

\* String.prototype.toLowerCase, token by token
LowerTok(t) ==
    CASE t = "Calories" -> "calories"
      [] t = "Protein" -> "protein"
      [] t = "Carbs" -> "carbs"
      [] t = "Fat" -> "fat"
      [] t = "Energy" -> "energy"
      [] t = "Carbohydrates" -> "carbohydrates"
      [] t = "Sugar" -> "sugar"
      [] OTHER -> t
toLowerCase(s) == [i \in 1..Len(s) |-> LowerTok(s[i])]

\* String.prototype.trim
RECURSIVE TrimLeft(_)
TrimLeft(s) == IF s # <<>> /\ IsSpace(Head(s)) THEN TrimLeft(Tail(s)) ELSE s
RECURSIVE TrimRight(_)
TrimRight(s) ==
    IF s # <<>> /\ IsSpace(s[Len(s)]) THEN TrimRight(SubSeq(s, 1, Len(s) - 1)) ELSE s
trim(s) == TrimRight(TrimLeft(s))

\* index of the first ":" of s at or after i, 0 when there is none
RECURSIVE FirstColon(_, _)
FirstColon(s, i) ==
    IF i > Len(s) THEN 0
    ELSE IF s[i] = ":" THEN i ELSE FirstColon(s, i + 1)

\* first index after i that is not white space (the greedy \s* of the pattern)
RECURSIVE SkipSpaces(_, _)
SkipSpaces(s, i) ==
    IF i <= Len(s) /\ IsSpace(s[i]) THEN SkipSpaces(s, i + 1) ELSE i

\* item.split(/:\s*/): cut at EVERY colon, each with the white space after it
RECURSIVE SplitColon(_)
SplitColon(s) ==
    LET i == FirstColon(s, 1) IN
    IF i = 0 THEN <<s>>
    ELSE <<SubSeq(s, 1, i - 1)>>
             \o SplitColon(SubSeq(s, SkipSpaces(s, i + 1), Len(s)))

-----------------------------------------------------------------------------
(* Macros object <-> string array *)

MacroKeys == {"calories", "protein", "carbs", "fat"}

\* a JavaScript string is truthy when it is not empty
Truthy(s) == s # <<>>

\* `Label: ${value}`
Line(label, value) == <<label, ":", " ">> \o value

\* formatMacrosForAppwrite: macros is None (undefined) or Some(record)
formatMacrosForAppwrite(macros) ==
    IF ~macros.def \/ Keys(macros.val) = {} THEN None
    ELSE LET m == macros.val
             has(k) == k \in Keys(m) /\ Truthy(m[k])
             formatted ==
                 (IF has("calories") THEN <<Line("Calories", m["calories"])>> ELSE <<>>)
              \o (IF has("protein") THEN <<Line("Protein", m["protein"])>> ELSE <<>>)
              \o (IF has("carbs") THEN <<Line("Carbs", m["carbs"])>> ELSE <<>>)
              \o (IF has("fat") THEN <<Line("Fat", m["fat"])>> ELSE <<>>)
         IN IF Len(formatted) > 0 THEN Some(formatted) ELSE None

\* the macros field a line sets, "" when its label is not recognised
MacroField(key) ==
    IF key = <<"calories">> \/ key = <<"energy">> THEN "calories"
    ELSE IF key = <<"protein">> THEN "protein"
    ELSE IF key = <<"carbs">> \/ key = <<"carbohydrates">> THEN "carbs"
    ELSE IF key = <<"fat">> THEN "fat"
    ELSE ""

\* an item of a stored array that is not a string (a number); the strings are
\* the sequences of characters and labels
NumberItem == <<"42">>
\* `typeof item === 'string'`
IsString(item) == item # NumberItem

\* the body of parseMacros' forEach: macrosObj after one more item
ParseItem(macrosObj, item) ==
    LET parts == SplitColon(item) IN
    IF ~IsString(item) THEN macrosObj
    ELSE IF Len(parts) = 2
    THEN LET key == toLowerCase(trim(parts[1]))
             value == trim(parts[2])
             f == MacroField(key)
         IN IF f = "" THEN macrosObj
            ELSE [k \in Keys(macrosObj) \cup {f} |->
                     IF k = f THEN value ELSE macrosObj[k]]
    ELSE macrosObj

RECURSIVE ParseItems(_, _)
ParseItems(macrosObj, items) ==
    IF items = <<>> THEN macrosObj
    ELSE ParseItems(ParseItem(macrosObj, Head(items)), Tail(items))

\* parseMacros: macrosJson is None (no array) or Some(lines)
parseMacros(macrosJson) ==
    IF ~macrosJson.def \/ Len(macrosJson.val) = 0 THEN None
    ELSE LET macrosObj == ParseItems(<<>>, macrosJson.val)
         IN IF Keys(macrosObj) # {} THEN Some(macrosObj) ELSE None


-----------------------------------------------------------------------------
(* The backend: errors, configuration, accounts and sessions *)

Users == {"u1", "u2"}
Clients == {"c1", "c2"}
NoUser == "null"
Undefined == "undefined"

\* the `name` arguments of createUserAccount and the passwords
Names == {Undefined, "Ann"}
GoodPassword == "pw"
Passwords == {GoodPassword, "bad"}

\* `name || ''`
OrEmpty(name) == IF name = Undefined \/ name = "" THEN "" ELSE name

\* import.meta.env: which identifiers are configured.  It is read once, when
\* the module is loaded, and never changes.
Configs == [DATABASE_ID : BOOLEAN,
            COLLECTION_USER_PROFILES : BOOLEAN,
            COLLECTION_SAVED_RECIPES : BOOLEAN]
FullConfig == [DATABASE_ID |-> TRUE,
               COLLECTION_USER_PROFILES |-> TRUE,
               COLLECTION_SAVED_RECIPES |-> TRUE]

\* what a failed request throws: an AppwriteException with its HTTP code and
\* type, or a plain Error of the transport (fetch's TypeError)
AppwriteErr(code, type) ==
    [cls |-> "AppwriteException", code |-> code, type |-> type, message |-> <<type>>]
E401 == AppwriteErr(401, "user_unauthorized")
E403 == AppwriteErr(403, "general_access_forbidden")
E404 == AppwriteErr(404, "document_not_found")
E409 == AppwriteErr(409, "user_already_exists")
E500 == AppwriteErr(500, "general_unknown")
ENet == [cls |-> "TypeError", code |-> 0, type |-> "", message |-> <<"Failed to fetch">>]
\* the SDK's own check of a required parameter that is undefined
EMissing == AppwriteErr(0, "missing_required_parameter")

\* new Error(message)
DomainErr(message) == [cls |-> "Error", code |-> 0, type |-> "", message |-> message]

\* the failures the environment may inject into a request ("ok": none): the
\* ones the callers tell apart, and for a fetch by id every HTTP code it reads
AuthFaults == {"ok", "401", "500", "net"}
RecipeFaults == {"ok", "401", "403", "404", "500", "net"}
Err(f) ==
    CASE f = "401" -> E401
      [] f = "403" -> E403
      [] f = "404" -> E404
      [] f = "500" -> E500
      [] OTHER -> ENet

\* error instanceof AppwriteException / error instanceof Error
IsAppwriteException(e) == e.cls = "AppwriteException"
IsError(e) == e.cls \in {"AppwriteException", "TypeError", "Error"}

\* a response: the value, or the error thrown
Ok(v) == [ok |-> TRUE, val |-> v, err |-> ENet]
Fail(e) == [ok |-> FALSE, val |-> <<>>, err |-> e]

\* Models.User: only $id and name are read
UserOf(id, name) == [id |-> id, name |-> name]
NullUser == UserOf(NoUser, "")
UserOfAccount(u) == UserOf(u, accounts[u].name)

\* account.get()
AccountGet(c, f) ==
    IF f # "ok" THEN Fail(Err(f))
    ELSE IF session[c] = NoUser THEN Fail(E401)
    ELSE Ok(UserOfAccount(session[c]))

\* account.createSession(email, password)
CreateSession(u, pw, f) ==
    IF f # "ok" THEN Fail(Err(f))
    ELSE IF u \notin DOMAIN accounts \/ accounts[u].password # pw THEN Fail(E401)
    ELSE Ok(u)

\* account.create(ID.unique(), email, password, name)
AccountCreate(u, f) ==
    IF f # "ok" THEN Fail(Err(f))
    ELSE IF u \in DOMAIN accounts THEN Fail(E409)
    ELSE Ok(u)

\* what an async function settles with: the value returned or the error thrown
Returned(v) == [kind |-> "return", val |-> v]
Thrown(e) == [kind |-> "throw", val |-> e]

\* a getCurrentUser that rethrows what is not a 401
getCurrentUserRethrows(o) ==
    IF o.ok THEN Returned(o.val)
    ELSE IF IsAppwriteException(o.err)
            /\ (o.err.code = 401 \/ o.err.type = "user_unauthorized")
         THEN Returned(NullUser)
         ELSE Thrown(o.err)

\* getCurrentUser, given the response of account.get(): the user, or null
\* from either branch of its catch
getCurrentUser(o) ==
    IF o.ok THEN Returned(o.val)
    ELSE IF IsAppwriteException(o.err)
            /\ (o.err.code = 401 \/ o.err.type = "user_unauthorized")
         THEN Returned(NullUser)
         ELSE Returned(NullUser)

-----------------------------------------------------------------------------
(* Calls *)

NoArg == [uid |-> NoUser, pw |-> "", name |-> Undefined, data |-> <<>>, id |-> 0,
          options |-> [query |-> None, difficulty |-> Undefined, sortBy |-> Undefined]]
IdleProc == [op |-> "idle", pc |-> "idle", arg |-> NoArg, user |-> NullUser, doc |-> 0]

\* the answer of the backend a call ended on (NoAnswer: it made no request)
Answer(o) == [ok |-> o.ok, err |-> o.err]
NoAnswer == Answer(Ok(<<>>))
NoResult == [client |-> "", op |-> "none", arg |-> NoArg, kind |-> "none",
             val |-> <<>>, reqs |-> <<>>, answer |-> NoAnswer]

Idle(c) == proc[c].op = "idle"
AllIdle == \A c \in Clients : Idle(c)

\* result holds the outcome of a completed call until its caller has taken it
\* (Return); no call starts or ends while an outcome is waiting
Taken == result = NoResult

\* a call starts: the synchronous part up to its first request
Begin(c, op, arg, pc, req) ==
    /\ Idle(c)
    /\ Taken
    /\ proc' = [proc EXCEPT ![c] = [op |-> op, pc |-> pc, arg |-> arg,
                                    user |-> NullUser, doc |-> 0]]
    /\ reqs' = [reqs EXCEPT ![c] = <<req>>]
    /\ UNCHANGED result

\* a call that ends before any request
Immediate(c, op, arg, kind, val) ==
    /\ Idle(c)
    /\ Taken
    /\ result' = [client |-> c, op |-> op, arg |-> arg, kind |-> kind,
                  val |-> val, reqs |-> <<>>, answer |-> NoAnswer]
    /\ UNCHANGED <<proc, reqs>>

\* the caller takes the outcome of the completed call
Return ==
    /\ ~Taken
    /\ result' = NoResult
    /\ UNCHANGED <<accounts, session, profiles, recipes, nextId, proc, reqs, mac, cfg, conv, form>>

\* the call goes on to its next request
Goto(c, p, req) ==
    /\ proc' = [proc EXCEPT ![c] = p]
    /\ reqs' = [reqs EXCEPT ![c] = Append(@, req)]
    /\ UNCHANGED result

\* the call ends on the answer o: it returns val or throws it
Complete(c, o, kind, val) ==
    /\ result' = [client |-> c, op |-> proc[c].op, arg |-> proc[c].arg,
                  kind |-> kind, val |-> val, reqs |-> reqs[c], answer |-> Answer(o)]
    /\ proc' = [proc EXCEPT ![c] = IdleProc]
    /\ reqs' = [reqs EXCEPT ![c] = <<>>]

\* the call of c is waiting for the answer to the request it made at pc
At(c, pc) == proc[c].pc = pc /\ Taken

-----------------------------------------------------------------------------
(* Authentication functions *)

\* getCurrentUser, called on its own
GetCurrentUserCall(c) ==
    /\ Begin(c, "getCurrentUser", NoArg, "gcu", "account.get")
    /\ UNCHANGED <<accounts, session, profiles, recipes, nextId, mac, cfg, conv, form>>

GetCurrentUserStep(c, f) ==
    /\ At(c, "gcu")
    /\ LET o == AccountGet(c, f)
           cu == getCurrentUser(o)
       IN Complete(c, o, cu.kind, cu.val)
    /\ UNCHANGED <<accounts, session, profiles, recipes, nextId, mac, cfg, conv, form>>

\* loginUser: the session, or the failure thrown again
LoginUserCall(c, u, pw) ==
    /\ Begin(c, "loginUser", [NoArg EXCEPT !.uid = u, !.pw = pw],
             "login", "account.createSession")
    /\ UNCHANGED <<accounts, session, profiles, recipes, nextId, mac, cfg, conv, form>>

\* a loginUser with the fallback its comment describes: the profile is made
\* when the user has none
LoginUserStepWithFallback(c, f) ==
    /\ At(c, "login")
    /\ LET u == proc[c].arg.uid
           o == CreateSession(u, proc[c].arg.pw, f)
       IN IF o.ok
          THEN /\ session' = [session EXCEPT ![c] = o.val]
               /\ profiles' = IF \E i \in 1..Len(profiles) : profiles[i].userId = u
                              THEN profiles
                              ELSE Append(profiles,
                                          [id |-> Len(profiles) + 1, userId |-> u,
                                           displayName |-> accounts[u].name])
               /\ Complete(c, o, "return", o.val)
          ELSE /\ Complete(c, o, "throw", o.err)
               /\ UNCHANGED <<session, profiles>>
    /\ UNCHANGED <<accounts, recipes, nextId, mac, cfg, conv, form>>

\* loginUser: the session is started, or the failure rethrown
LoginUserStep(c, f) ==
    /\ At(c, "login")
    /\ LET o == CreateSession(proc[c].arg.uid, proc[c].arg.pw, f) IN
       IF o.ok
       THEN /\ session' = [session EXCEPT ![c] = o.val]
            /\ Complete(c, o, "return", o.val)
       ELSE /\ Complete(c, o, "throw", o.err)
            /\ UNCHANGED session
    /\ UNCHANGED <<accounts, profiles, recipes, nextId, mac, cfg, conv, form>>

\* account.deleteSession('current')
DeleteSession(c, f) ==
    IF f # "ok" THEN Fail(Err(f))
    ELSE IF session[c] = NoUser THEN Fail(E401)
    ELSE Ok(<<>>)

\* logoutUser: a failure is logged and swallowed
LogoutUserCall(c) ==
    /\ Begin(c, "logoutUser", NoArg, "logout", "account.deleteSession")
    /\ UNCHANGED <<accounts, session, profiles, recipes, nextId, mac, cfg, conv, form>>

LogoutUserStep(c, f) ==
    /\ At(c, "logout")
    /\ LET o == DeleteSession(c, f) IN
       /\ session' = IF o.ok THEN [session EXCEPT ![c] = NoUser] ELSE session
       /\ Complete(c, o, "return", <<>>)
    /\ UNCHANGED <<accounts, profiles, recipes, nextId, mac, cfg, conv, form>>

-----------------------------------------------------------------------------
(* User profile functions *)

\* the data updateUserProfile is called with: any of userId and displayName
ProfileUpdates ==
    {[k \in K |-> IF k = "userId" THEN "u2" ELSE "Ann"] :
        K \in SUBSET {"userId", "displayName"}}

\* initialProfileData of ensureUserProfileExists, with the document id and the
\* permissions createDocument is given
InitialProfile(id, userId, name) ==
    [id |-> id,
     userId |-> userId,
     displayName |-> OrEmpty(name),
     dietaryPreferences |-> <<>>,
     cuisinePreferences |-> <<>>,
     skillLevel |-> "Any",
     darkMode |-> FALSE,
     savedIngredients |-> <<>>,
     defaultServings |-> 2,
     permissions |-> userId]

\* a lookup that finds nothing
ListProfilesNothing(userId, f) ==
    IF f # "ok" THEN Fail(Err(f)) ELSE Ok(<<>>)

\* databases.listDocuments(profiles, [Query.equal('userId', userId), Query.limit(1)])
ListProfiles(userId, f) ==
    IF f # "ok" THEN Fail(Err(f))
    ELSE LET found == SelectSeq(profiles, LAMBDA d : d.userId = userId)
         IN Ok(SubSeq(found, 1, IF Len(found) > 0 THEN 1 ELSE 0))

\* const { userId, ...updateData } = profileUpdateData
WithoutUserId(data) == [k \in Keys(data) \ {"userId"} |-> data[k]]

\* databases.updateDocument: the document with the data's fields replaced
Merge(doc, data) ==
    [k \in Keys(doc) \cup Keys(data) |-> IF k \in Keys(data) THEN data[k] ELSE doc[k]]

\* the user and name ensureUserProfileExists was called with
EnsureUserId(c) ==
    IF proc[c].op = "createUserAccount" THEN proc[c].arg.uid ELSE proc[c].user.id
EnsureName(c) ==
    IF proc[c].op = "createUserAccount" THEN proc[c].arg.name ELSE proc[c].user.name

\* updateUserProfile's `Object.keys(updateData).length === 0`
NothingToUpdate(data) == Keys(WithoutUserId(data)) = {}

\* getUserProfile has returned r (Some(document) or None) to its caller, on
\* the answer o
AfterGetUserProfile(c, o, r) ==
    IF proc[c].op = "getUserProfile" THEN Complete(c, o, "return", r)
    ELSE \* updateUserProfile, called directly or by clearSavedIngredients
         IF NothingToUpdate(proc[c].arg.data)
         THEN Complete(c, o, "return",
                       IF proc[c].op = "clearSavedIngredients" THEN <<>> ELSE r)
         ELSE IF ~r.def
              THEN Complete(c, o, "throw",
                      DomainErr(<<"Failed to find or create profile document for user ",
                                  proc[c].user.id, ".">>))
              ELSE Goto(c, [proc[c] EXCEPT !.pc = "uup_update", !.doc = r.val.id],
                        "updateDocument(userProfiles)")

\* a createUserAccount that insists on the profile
AfterEnsureRequiresProfile(c, o, r) ==
    IF proc[c].op = "createUserAccount"
    THEN IF r.def
         THEN Complete(c, o, "return", UserOf(proc[c].arg.uid, OrEmpty(proc[c].arg.name)))
         ELSE Complete(c, o, "throw", DomainErr(<<"Profile not created">>))
    ELSE AfterGetUserProfile(c, o, r)

\* ensureUserProfileExists has returned r to its caller: createUserAccount
\* ignores it and returns the account
AfterEnsure(c, o, r) ==
    IF proc[c].op = "createUserAccount"
    THEN Complete(c, o, "return", UserOf(proc[c].arg.uid, OrEmpty(proc[c].arg.name)))
    ELSE AfterGetUserProfile(c, o, r)

\* ensureUserProfileExists is called: its configuration check, then its lookup
EnsureStart(c, o) ==
    IF ~cfg.COLLECTION_USER_PROFILES \/ ~cfg.DATABASE_ID
    THEN AfterEnsure(c, o, None)
    ELSE Goto(c, [proc[c] EXCEPT !.pc = "ensure_list"], "listDocuments(userProfiles)")

\* a lookup whose result is not read
ProfileExistsNever(existing) == FALSE

\* `existing.documents.length > 0`
ProfileExists(existing) == Len(existing.val) > 0

\* ensureUserProfileExists: the lookup is answered
EnsureListStep(c, f) ==
    /\ At(c, "ensure_list")
    /\ LET existing == ListProfiles(EnsureUserId(c), f) IN
       IF ~existing.ok THEN AfterEnsure(c, existing, None)
       ELSE IF ProfileExists(existing) THEN AfterEnsure(c, existing, Some(existing.val[1]))
       ELSE Goto(c, [proc[c] EXCEPT !.pc = "ensure_create"],
                 "createDocument(userProfiles)")
    /\ UNCHANGED <<accounts, session, profiles, recipes, nextId, mac, cfg, conv, form>>

\* databases.createDocument(profiles, ID.unique(), data, permissions)
CreateProfile(userId, name, f) ==
    IF f # "ok" THEN Fail(Err(f))
    ELSE Ok(InitialProfile(Len(profiles) + 1, userId, name))

\* ensureUserProfileExists: the createDocument is answered
EnsureCreateStep(c, f) ==
    /\ At(c, "ensure_create")
    /\ f = "ok" => Len(profiles) < MaxProfiles
    /\ LET o == CreateProfile(EnsureUserId(c), EnsureName(c), f) IN
       IF o.ok
       THEN /\ profiles' = Append(profiles, o.val)
            /\ AfterEnsure(c, o, Some(o.val))
       ELSE /\ AfterEnsure(c, o, None)
            /\ UNCHANGED profiles
    /\ UNCHANGED <<accounts, session, recipes, nextId, mac, cfg, conv, form>>

\* createUserAccount
CreateUserAccountCall(c, u, pw, name) ==
    /\ LET arg == [NoArg EXCEPT !.uid = u, !.pw = pw, !.name = name] IN
       IF ~cfg.COLLECTION_USER_PROFILES
       THEN Immediate(c, "createUserAccount", arg, "throw",
                DomainErr(<<"User Profile Collection ID is not configured. Cannot create user.">>))
       ELSE Begin(c, "createUserAccount", arg, "cua_create", "account.create")
    /\ UNCHANGED <<accounts, session, profiles, recipes, nextId, mac, cfg, conv, form>>

CreateUserAccountCreateStep(c, f) ==
    /\ At(c, "cua_create")
    /\ LET o == AccountCreate(proc[c].arg.uid, f) IN
       IF o.ok
       THEN /\ accounts' = [u \in DOMAIN accounts \cup {o.val} |->
                              IF u = o.val
                              THEN [name |-> OrEmpty(proc[c].arg.name),
                                    password |-> proc[c].arg.pw]
                              ELSE accounts[u]]
            /\ Goto(c, [proc[c] EXCEPT !.pc = "cua_session"], "account.createSession")
       ELSE /\ Complete(c, o, "throw", o.err)
            /\ UNCHANGED accounts
    /\ UNCHANGED <<session, profiles, recipes, nextId, mac, cfg, conv, form>>

\* a createUserAccount that takes the account back when no session starts
CreateUserAccountSessionStepRollsBack(c, f) ==
    /\ At(c, "cua_session")
    /\ LET o == CreateSession(proc[c].arg.uid, proc[c].arg.pw, f) IN
       IF o.ok
       THEN /\ session' = [session EXCEPT ![c] = o.val]
            /\ EnsureStart(c, o)
            /\ UNCHANGED accounts
       ELSE /\ Complete(c, o, "throw", o.err)
            /\ accounts' = [u \in DOMAIN accounts \ {proc[c].arg.uid} |-> accounts[u]]
            /\ UNCHANGED session
    /\ UNCHANGED <<profiles, recipes, nextId, mac, cfg, conv, form>>

\* createUserAccount: loginUser is answered; on success the profile step starts
CreateUserAccountSessionStep(c, f) ==
    /\ At(c, "cua_session")
    /\ LET o == CreateSession(proc[c].arg.uid, proc[c].arg.pw, f) IN
       IF o.ok
       THEN /\ session' = [session EXCEPT ![c] = o.val]
            /\ EnsureStart(c, o)
       ELSE /\ Complete(c, o, "throw", o.err)
            /\ UNCHANGED session
    /\ UNCHANGED <<accounts, profiles, recipes, nextId, mac, cfg, conv, form>>

\* getUserProfile
GetUserProfileCall(c) ==
    /\ Begin(c, "getUserProfile", NoArg, "gup_get", "account.get")
    /\ UNCHANGED <<accounts, session, profiles, recipes, nextId, mac, cfg, conv, form>>

\* getUserProfile (called directly, or from updateUserProfile): the user is known
GetUserProfileUserStep(c, f) ==
    /\ At(c, "gup_get")
    /\ LET o == AccountGet(c, f)
           cu == getCurrentUser(o)
           user == cu.val
       IN IF cu.kind = "throw" THEN Complete(c, o, "throw", cu.val)
          ELSE IF user = NullUser THEN AfterGetUserProfile(c, o, None)
          ELSE IF ~cfg.COLLECTION_USER_PROFILES \/ ~cfg.DATABASE_ID
          THEN AfterGetUserProfile(c, o, None)
          ELSE Goto(c, [proc[c] EXCEPT !.pc = "gup_list", !.user = user],
                    "listDocuments(userProfiles)")
    /\ UNCHANGED <<accounts, session, profiles, recipes, nextId, mac, cfg, conv, form>>

\* a getUserProfile that only reads
GetUserProfileListStepReadOnly(c, f) ==
    /\ At(c, "gup_list")
    /\ LET response == ListProfiles(proc[c].user.id, f) IN
       IF ~response.ok THEN AfterGetUserProfile(c, response, None)
       ELSE IF Len(response.val) > 0
       THEN AfterGetUserProfile(c, response, Some(response.val[1]))
       ELSE AfterGetUserProfile(c, response, None)
    /\ UNCHANGED <<accounts, session, profiles, recipes, nextId, mac, cfg, conv, form>>

\* getUserProfile: the lookup is answered
GetUserProfileListStep(c, f) ==
    /\ At(c, "gup_list")
    /\ LET response == ListProfiles(proc[c].user.id, f) IN
       IF ~response.ok THEN AfterGetUserProfile(c, response, None)
       ELSE IF Len(response.val) > 0
       THEN AfterGetUserProfile(c, response, Some(response.val[1]))
       ELSE EnsureStart(c, response)
    /\ UNCHANGED <<accounts, session, profiles, recipes, nextId, mac, cfg, conv, form>>

\* updateUserProfile
UpdateUserProfileCall(c, data) ==
    /\ Begin(c, "updateUserProfile", [NoArg EXCEPT !.data = data], "uup_get", "account.get")
    /\ UNCHANGED <<accounts, session, profiles, recipes, nextId, mac, cfg, conv, form>>

\* updateUserProfile (called directly, or by clearSavedIngredients): the user
\* is known; it goes on to getUserProfile, to
\* return what that returns or to update the document that returns
UpdateUserProfileUserStep(c, f) ==
    /\ At(c, "uup_get")
    /\ LET o == AccountGet(c, f)
           cu == getCurrentUser(o)
           user == cu.val
       IN IF cu.kind = "throw" THEN Complete(c, o, "throw", cu.val)
          ELSE IF user = NullUser
          THEN Complete(c, o, "throw",
                        DomainErr(<<"Not authenticated. Cannot update profile.">>))
          ELSE IF ~cfg.COLLECTION_USER_PROFILES \/ ~cfg.DATABASE_ID
          THEN Complete(c, o, "throw", DomainErr(<<"Profile collection not configured.">>))
          ELSE Goto(c, [proc[c] EXCEPT !.pc = "gup_get", !.user = user], "account.get")
    /\ UNCHANGED <<accounts, session, profiles, recipes, nextId, mac, cfg, conv, form>>

\* databases.updateDocument(profiles, id, updateData)
UpdateProfile(i, updateData, f) ==
    IF f # "ok" THEN Fail(Err(f))
    ELSE IF i \notin DOMAIN profiles THEN Fail(E404)
    ELSE Ok(Merge(profiles[i], updateData))

\* updateUserProfile: the updateDocument is answered; clearSavedIngredients
\* awaits the document and returns nothing
UpdateUserProfileUpdateStep(c, f) ==
    /\ At(c, "uup_update")
    /\ LET i == proc[c].doc
           o == UpdateProfile(i, WithoutUserId(proc[c].arg.data), f)
       IN IF o.ok
          THEN /\ profiles' = [profiles EXCEPT ![i] = o.val]
               /\ Complete(c, o, "return",
                           IF proc[c].op = "clearSavedIngredients" THEN <<>>
                           ELSE Some(o.val))
          ELSE /\ Complete(c, o, "throw", o.err)
               /\ UNCHANGED profiles
    /\ UNCHANGED <<accounts, session, recipes, nextId, mac, cfg, conv, form>>

\* clearSavedIngredients: updateUserProfile({ savedIngredients: [] }), its
\* document dropped (the function returns nothing) and its failure thrown again
ClearSavedIngredientsCall(c) ==
    /\ Begin(c, "clearSavedIngredients", [NoArg EXCEPT !.data = [savedIngredients |-> <<>>]],
             "uup_get", "account.get")
    /\ UNCHANGED <<accounts, session, profiles, recipes, nextId, mac, cfg, conv, form>>

-----------------------------------------------------------------------------
(* Recipe payload *)

\* the optional plain fields prepareRecipePayload copies under the same name
SimpleKeys == {"description", "prepTime", "cookTime", "totalTime", "servings",
               "difficulty", "reasoning", "tags", "userRating", "userNotes"}

\* a payload that also copies the recipe's own userId
prepareRecipePayloadKeepsUserId(recipe, userId) ==
    LET R == Keys(recipe)
        given == userId # Undefined /\ userId # ""
        macrosJson == IF "macros" \in R
                      THEN formatMacrosForAppwrite(Some(recipe["macros"]))
                      ELSE None
        K == (IF given THEN {"userId"} ELSE {})
             \cup (R \cap {"userId", "title", "instructions", "ingredients"})
             \cup (IF "tips" \in R THEN {"tipsJson"} ELSE {})
             \cup (IF macrosJson.def THEN {"macrosJson"} ELSE {})
             \cup (R \cap SimpleKeys)
    IN [k \in K |->
          CASE k = "userId" -> IF given THEN userId ELSE recipe["userId"]
            [] k = "tipsJson" -> recipe["tips"]
            [] k = "macrosJson" -> macrosJson.val
            [] OTHER -> recipe[k]]

\* prepareRecipePayload(recipe, userId): recipe is an object (a function from
\* its keys), userId a string or Undefined
prepareRecipePayload(recipe, userId) ==
    LET R == Keys(recipe)
        macrosJson == IF "macros" \in R
                      THEN formatMacrosForAppwrite(Some(recipe["macros"]))
                      ELSE None
        K == (IF userId # Undefined /\ userId # "" THEN {"userId"} ELSE {})
             \cup (R \cap {"title", "instructions", "ingredients"})
             \cup (IF "tips" \in R THEN {"tipsJson"} ELSE {})
             \cup (IF macrosJson.def THEN {"macrosJson"} ELSE {})
             \cup (R \cap SimpleKeys)
    IN [k \in K |->
          CASE k = "userId" -> userId
            [] k = "tipsJson" -> recipe["tips"]
            [] k = "macrosJson" -> macrosJson.val
            [] OTHER -> recipe[k]]

\* saveRecipe's check of the required fields: `!x` of each.  A string is falsy
\* when it is empty; an array, even an empty one, is truthy.
MissingRequired(createPayload) ==
    \/ "userId" \notin Keys(createPayload) \/ createPayload["userId"] = ""
    \/ "title" \notin Keys(createPayload) \/ createPayload["title"] = ""
    \/ "ingredients" \notin Keys(createPayload)
    \/ "instructions" \notin Keys(createPayload) \/ createPayload["instructions"] = ""

\* a wrapping that keeps the prefix only
MessageOfNothing(e) == <<>>

\* `${error instanceof Error ? error.message : 'Unknown database error'}`
MessageOf(e) == IF IsError(e) THEN e.message ELSE <<"Unknown database error">>
Wrapped(prefix, e) == DomainErr(<<prefix>> \o MessageOf(e))

\* the recipe inputs of the model: every choice of absent / value per field
OptStr(vals) == {[def |-> FALSE, val |-> ""]} \cup {[def |-> TRUE, val |-> v] : v \in vals}
OptSeq(vals) == {None} \cup {Some(v) : v \in vals}
RecipeOf(t, i, s, m, u) ==
    [k \in (IF t.def THEN {"title"} ELSE {})
           \cup (IF i.def THEN {"ingredients"} ELSE {})
           \cup (IF s.def THEN {"instructions"} ELSE {})
           \cup (IF m.def THEN {"macros"} ELSE {})
           \cup (IF u.def THEN {"userId"} ELSE {}) |->
        CASE k = "title" -> t.val
          [] k = "ingredients" -> i.val
          [] k = "instructions" -> s.val
          [] k = "macros" -> m.val
          [] OTHER -> u.val]
\* saveRecipe is given a whole recipe (title, ingredients and instructions are
\* required by its type), updateRecipe any part of one; either may carry a
\* userId the type does not have
SaveInputs ==
    {RecipeOf(t, i, s, m, u) :
        t \in OptStr({"", "T"}) \ OptStr({}), i \in OptSeq({<<>>, <<"egg">>}) \ {None},
        s \in OptStr({"", "S"}) \ OptStr({}), m \in OptSeq({<<>>, [calories |-> <<"a">>]}),
        u \in OptStr({"u2"})}
UpdateInputs ==
    {RecipeOf(t, i, s, m, u) :
        t \in OptStr({"", "T"}), i \in OptSeq({<<>>}),
        s \in OptStr({}), m \in OptSeq({<<>>, [calories |-> <<"a">>]}),
        u \in OptStr({"u2"})}

-----------------------------------------------------------------------------
(* Recipe documents in the backend *)

DocIds == 1..MaxRecipes
RecipesConfigured == cfg.DATABASE_ID /\ cfg.COLLECTION_SAVED_RECIPES

\* databases.getDocument(recipes, id)
GetDocument(id, f) ==
    IF f # "ok" THEN Fail(Err(f))
    ELSE IF id \notin DOMAIN recipes THEN Fail(E404)
    ELSE Ok(recipes[id])

\* titles compare as strings: "" < "S" < "T"
TitleBefore(a, b) == a # b /\ (a = "" \/ (a = "S" /\ b = "T"))

\* the order listDocuments returns documents x and y in under the order query;
\* documents are created in the order of their ids
Before(order, x, y) ==
    CASE order.method = "orderAsc" /\ order.attribute = "$createdAt" -> x < y
      [] order.method = "orderAsc" /\ order.attribute = "title" ->
            \/ TitleBefore(recipes[x]["title"], recipes[y]["title"])
            \/ recipes[x]["title"] = recipes[y]["title"] /\ x < y
      [] OTHER -> x > y

RECURSIVE SortIds(_, _)
SortIds(S, order) ==
    IF S = {} THEN <<>>
    ELSE LET m == CHOOSE x \in S : \A y \in S \ {x} : Before(order, x, y)
         IN <<m>> \o SortIds(S \ {m}, order)

\* the queries fetchUserRecipes builds: the user's documents, the title search
\* when the query is not blank, the difficulty when one is given, the order
FetchQueries(userId, options) ==
    <<[method |-> "equal", attribute |-> "userId", values |-> <<userId>>]>>
    \o (IF options.query.def /\ options.query.val # <<>> /\ trim(options.query.val) # <<>>
        THEN <<[method |-> "search", attribute |-> "title",
                values |-> <<trim(options.query.val)>>]>>
        ELSE <<>>)
    \o (IF options.difficulty # Undefined /\ options.difficulty # ""
        THEN <<[method |-> "equal", attribute |-> "difficulty",
                values |-> <<options.difficulty>>]>>
        ELSE <<>>)
    \o <<CASE options.sortBy = "oldest" ->
                [method |-> "orderAsc", attribute |-> "$createdAt", values |-> <<>>]
           [] options.sortBy = "alphabetical" ->
                [method |-> "orderAsc", attribute |-> "title", values |-> <<>>]
           [] OTHER ->
                [method |-> "orderDesc", attribute |-> "$createdAt", values |-> <<>>]>>

\* databases.listDocuments(recipes, queries): the documents every equal and
\* search query holds of, in the order of the last query.  A title is one
\* word, and the search finds it when the query is that word.
ListRecipes(queries, f) ==
    IF f # "ok" THEN Fail(Err(f))
    ELSE LET Holds(q, doc) ==
                 CASE q.method = "equal" ->
                        /\ q.attribute \in Keys(doc)
                        /\ doc[q.attribute] = q.values[1]
                   [] q.method = "search" ->
                        /\ q.attribute \in Keys(doc)
                        /\ <<doc[q.attribute]>> = q.values[1]
                   [] OTHER -> TRUE
             ids == SortIds({d \in DOMAIN recipes :
                                \A i \in 1..Len(queries) : Holds(queries[i], recipes[d])},
                            queries[Len(queries)])
         IN Ok([i \in 1..Len(ids) |-> recipes[ids[i]]])

-----------------------------------------------------------------------------
(* Recipe CRUD *)

\* the options fetchUserRecipes is called with: every order; a query that is
\* empty, blank, a stored title (padded or not) or another word; a difficulty
\* that is empty or that no stored document has
FetchOptions ==
    LET Options(q, d, o) == [query |-> q, difficulty |-> d, sortBy |-> o] IN
    {Options(None, Undefined, o) : o \in {Undefined, "newest", "oldest", "alphabetical"}}
    \cup {Options(Some(q), Undefined, Undefined) :
             q \in {<<>>, <<" ", " ">>, <<"T">>, <<" ", "T", " ">>, <<"zzz">>}}
    \cup {Options(None, d, "newest") : d \in {"", "easy"}}
    \cup {Options(Some(<<"T">>), "easy", "alphabetical")}

\* a databases.* request is made: with an identifier not configured the SDK
\* throws before sending anything, and the caller's handler gets that error
Request(c, p, req, kind, onMissing) ==
    IF RecipesConfigured THEN Goto(c, p, req)
    ELSE Complete(c, Fail(EMissing), kind, onMissing)

\* databases.createDocument(recipes, ID.unique(), createPayload)
CreateRecipe(createPayload, f) ==
    IF f # "ok" THEN Fail(Err(f))
    ELSE Ok([k \in Keys(createPayload) \cup {"id"} |->
                IF k = "id" THEN nextId ELSE createPayload[k]])

\* databases.updateDocument(recipes, id, payload)
UpdateDocument(id, payload, f) ==
    IF f # "ok" THEN Fail(Err(f))
    ELSE IF id \notin DOMAIN recipes THEN Fail(E404)
    ELSE Ok(Merge(recipes[id], payload))

\* databases.deleteDocument(recipes, id)
DeleteDocument(id, f) ==
    IF f # "ok" THEN Fail(Err(f))
    ELSE IF id \notin DOMAIN recipes THEN Fail(E404)
    ELSE Ok(<<>>)

\* saveRecipe
SaveRecipeCall(c, recipe) ==
    /\ Begin(c, "saveRecipe", [NoArg EXCEPT !.data = recipe], "save_get", "account.get")
    /\ UNCHANGED <<accounts, session, profiles, recipes, nextId, mac, cfg, conv, form>>

\* saveRecipe: the user is known; the payload is prepared and validated
SaveRecipeUserStep(c, f) ==
    /\ At(c, "save_get")
    /\ LET o == AccountGet(c, f)
           cu == getCurrentUser(o)
           user == cu.val
           payload == prepareRecipePayload(proc[c].arg.data, user.id)
       IN IF cu.kind = "throw" THEN Complete(c, o, "throw", cu.val)
          ELSE IF user = NullUser
          THEN Complete(c, o, "throw",
                        DomainErr(<<"Not authenticated. Cannot save recipe.">>))
          ELSE IF MissingRequired(payload)
          THEN Complete(c, o, "throw",
                  DomainErr(<<"Cannot save recipe: Missing required fields (userId, title, ingredients, instructions).">>))
          ELSE Request(c, [proc[c] EXCEPT !.pc = "save_create", !.user = user],
                       "createDocument(recipes)",
                       "throw", Wrapped("Failed to save recipe: ", EMissing))
    /\ UNCHANGED <<accounts, session, profiles, recipes, nextId, mac, cfg, conv, form>>

SaveRecipeCreateStep(c, f) ==
    /\ At(c, "save_create")
    /\ f = "ok" => nextId <= MaxRecipes
    /\ LET o == CreateRecipe(prepareRecipePayload(proc[c].arg.data, proc[c].user.id), f) IN
       IF o.ok
       THEN /\ recipes' = [d \in DOMAIN recipes \cup {nextId} |->
                             IF d = nextId THEN o.val ELSE recipes[d]]
            /\ nextId' = nextId + 1
            /\ Complete(c, o, "return", o.val)
       ELSE /\ Complete(c, o, "throw", Wrapped("Failed to save recipe: ", o.err))
            /\ UNCHANGED <<recipes, nextId>>
    /\ UNCHANGED <<accounts, session, profiles, mac, cfg, conv, form>>

\* updateRecipe
UpdateRecipeCall(c, id, data) ==
    /\ Begin(c, "updateRecipe", [NoArg EXCEPT !.id = id, !.data = data],
             "upd_get", "account.get")
    /\ UNCHANGED <<accounts, session, profiles, recipes, nextId, mac, cfg, conv, form>>

\* an update that sends whatever payload it has
IsEmptyPayloadNever(payload) == FALSE

\* `Object.keys(payload).length === 0`
IsEmptyPayload(payload) == Keys(payload) = {}

\* updateRecipe: the user is known; an empty payload is not sent, the document
\* is fetched instead
UpdateRecipeUserStep(c, f) ==
    /\ At(c, "upd_get")
    /\ LET o == AccountGet(c, f)
           cu == getCurrentUser(o)
           user == cu.val
           payload == prepareRecipePayload(proc[c].arg.data, Undefined)
       IN IF cu.kind = "throw" THEN Complete(c, o, "throw", cu.val)
          ELSE IF user = NullUser
          THEN Complete(c, o, "throw",
                        DomainErr(<<"Not authenticated. Cannot update recipe.">>))
          ELSE IF IsEmptyPayload(payload)
          THEN Request(c, [proc[c] EXCEPT !.pc = "upd_fetch", !.user = user],
                       "getDocument(recipes)",
                       "throw", EMissing)
          ELSE Request(c, [proc[c] EXCEPT !.pc = "upd_update", !.user = user],
                       "updateDocument(recipes)",
                       "throw", Wrapped("Failed to update recipe: ", EMissing))
    /\ UNCHANGED <<accounts, session, profiles, recipes, nextId, mac, cfg, conv, form>>

\* the empty update: the document is returned as fetched; a failure of the
\* fetch is not caught
UpdateRecipeFetchStep(c, f) ==
    /\ At(c, "upd_fetch")
    /\ LET o == GetDocument(proc[c].arg.id, f) IN
       IF o.ok THEN Complete(c, o, "return", o.val) ELSE Complete(c, o, "throw", o.err)
    /\ UNCHANGED <<accounts, session, profiles, recipes, nextId, mac, cfg, conv, form>>

UpdateRecipeUpdateStep(c, f) ==
    /\ At(c, "upd_update")
    /\ LET id == proc[c].arg.id
           o == UpdateDocument(id, prepareRecipePayload(proc[c].arg.data, Undefined), f)
       IN IF o.ok
          THEN /\ recipes' = [recipes EXCEPT ![id] = o.val]
               /\ Complete(c, o, "return", o.val)
          ELSE /\ Complete(c, o, "throw", Wrapped("Failed to update recipe: ", o.err))
               /\ UNCHANGED recipes
    /\ UNCHANGED <<accounts, session, profiles, nextId, mac, cfg, conv, form>>

\* fetchUserRecipes
FetchUserRecipesCall(c, options) ==
    /\ Begin(c, "fetchUserRecipes", [NoArg EXCEPT !.options = options],
             "fetch_get", "account.get")
    /\ UNCHANGED <<accounts, session, profiles, recipes, nextId, mac, cfg, conv, form>>

\* a fetch that fails without a user, as the other recipe calls do
FetchWithoutUserThrows(c, o) ==
    Complete(c, o, "throw", DomainErr(<<"Not authenticated. Cannot fetch recipes.">>))

\* `if (!user) return []`
FetchWithoutUser(c, o) == Complete(c, o, "return", <<>>)

\* fetchUserRecipes: the user is known
FetchUserRecipesUserStep(c, f) ==
    /\ At(c, "fetch_get")
    /\ LET o == AccountGet(c, f)
           cu == getCurrentUser(o)
           user == cu.val
       IN IF cu.kind = "throw" THEN Complete(c, o, "throw", cu.val)
          ELSE IF user = NullUser THEN FetchWithoutUser(c, o)
          ELSE Request(c, [proc[c] EXCEPT !.pc = "fetch_list", !.user = user],
                       "listDocuments(recipes)",
                       "return", <<>>)
    /\ UNCHANGED <<accounts, session, profiles, recipes, nextId, mac, cfg, conv, form>>

\* fetchUserRecipes: the documents, or the empty list when the request failed
FetchUserRecipesListStep(c, f) ==
    /\ At(c, "fetch_list")
    /\ LET res == ListRecipes(FetchQueries(proc[c].user.id, proc[c].arg.options), f) IN
       IF res.ok THEN Complete(c, res, "return", res.val)
       ELSE Complete(c, res, "return", <<>>)
    /\ UNCHANGED <<accounts, session, profiles, recipes, nextId, mac, cfg, conv, form>>

\* deleteRecipe: the document's userId is never compared with the caller's
DeleteRecipeCall(c, id) ==
    /\ Begin(c, "deleteRecipe", [NoArg EXCEPT !.id = id], "del_get", "account.get")
    /\ UNCHANGED <<accounts, session, profiles, recipes, nextId, mac, cfg, conv, form>>

\* a deleteRecipe with the ownership check its comment describes
DeleteRecipeUserStepOwnerOnly(c, f) ==
    /\ At(c, "del_get")
    /\ LET o == AccountGet(c, f)
           cu == getCurrentUser(o)
           user == cu.val
           id == proc[c].arg.id
       IN IF cu.kind = "throw" THEN Complete(c, o, "throw", cu.val)
          ELSE IF user = NullUser
          THEN Complete(c, o, "throw", DomainErr(<<"Not authenticated.">>))
          ELSE IF id \in DOMAIN recipes /\ recipes[id]["userId"] # user.id
          THEN Complete(c, o, "throw",
                        DomainErr(<<"User does not have permission to delete this recipe.">>))
          ELSE Request(c, [proc[c] EXCEPT !.pc = "del_delete", !.user = user],
                       "deleteDocument(recipes)",
                       "throw", Wrapped("Failed to delete recipe: ", EMissing))
    /\ UNCHANGED <<accounts, session, profiles, recipes, nextId, mac, cfg, conv, form>>

\* deleteRecipe: the user is known
DeleteRecipeUserStep(c, f) ==
    /\ At(c, "del_get")
    /\ LET o == AccountGet(c, f)
           cu == getCurrentUser(o)
           user == cu.val
       IN IF cu.kind = "throw" THEN Complete(c, o, "throw", cu.val)
          ELSE IF user = NullUser
          THEN Complete(c, o, "throw", DomainErr(<<"Not authenticated.">>))
          ELSE Request(c, [proc[c] EXCEPT !.pc = "del_delete", !.user = user],
                       "deleteDocument(recipes)",
                       "throw", Wrapped("Failed to delete recipe: ", EMissing))
    /\ UNCHANGED <<accounts, session, profiles, recipes, nextId, mac, cfg, conv, form>>

DeleteRecipeDeleteStep(c, f) ==
    /\ At(c, "del_delete")
    /\ LET id == proc[c].arg.id
           o == DeleteDocument(id, f)
       IN IF o.ok
          THEN /\ recipes' = [d \in DOMAIN recipes \ {id} |-> recipes[d]]
               /\ Complete(c, o, "return", <<>>)
          ELSE /\ Complete(c, o, "throw", Wrapped("Failed to delete recipe: ", o.err))
               /\ UNCHANGED recipes
    /\ UNCHANGED <<accounts, session, profiles, nextId, mac, cfg, conv, form>>

\* a not-found message that leaves the id out
NotFoundMessageWithoutId(documentId) == <<"Recipe ", "not found", ".">>

\* the messages of getRecipeById's not-found and no-permission errors
NotFoundMessage(documentId) ==
    <<"Recipe ", "not found", " (ID: ", ToString(documentId), ").">>
NoPermissionMessage(documentId) ==
    <<"You do not have permission to view this recipe", " (ID: ",
      ToString(documentId), ").">>

\* a catch that reads HTTP 403, not 401, as the missing permission
GetRecipeByIdErrorOn403(documentId, error) ==
    IF IsAppwriteException(error) /\ error.code = 404
    THEN DomainErr(NotFoundMessage(documentId))
    ELSE IF IsAppwriteException(error) /\ error.code = 403
    THEN DomainErr(NoPermissionMessage(documentId))
    ELSE Wrapped("Failed to fetch recipe: ", error)

\* the error getRecipeById's catch throws for the failure `error` of the fetch
GetRecipeByIdError(documentId, error) ==
    IF IsAppwriteException(error) /\ error.code = 404
    THEN DomainErr(NotFoundMessage(documentId))
    ELSE IF IsAppwriteException(error) /\ error.code = 401
    THEN DomainErr(NoPermissionMessage(documentId))
    ELSE Wrapped("Failed to fetch recipe: ", error)

\* getRecipeById
GetRecipeByIdCall(c, id) ==
    /\ LET arg == [NoArg EXCEPT !.id = id] IN
       IF ~cfg.DATABASE_ID \/ ~cfg.COLLECTION_SAVED_RECIPES
       THEN Immediate(c, "getRecipeById", arg, "throw",
                DomainErr(<<"Database or Recipe Collection ID not configured.">>))
       ELSE Begin(c, "getRecipeById", arg, "get_fetch", "getDocument(recipes)")
    /\ UNCHANGED <<accounts, session, profiles, recipes, nextId, mac, cfg, conv, form>>

GetRecipeByIdStep(c, f) ==
    /\ At(c, "get_fetch")
    /\ LET o == GetDocument(proc[c].arg.id, f) IN
       IF o.ok THEN Complete(c, o, "return", o.val)
       ELSE Complete(c, o, "throw", GetRecipeByIdError(proc[c].arg.id, o.err))
    /\ UNCHANGED <<accounts, session, profiles, recipes, nextId, mac, cfg, conv, form>>

-----------------------------------------------------------------------------
(* The macros conversions, applied one after the other to an input record *)

MacIdle == [stage |-> "idle", macros |-> None, lines |-> None, out |-> None]

\* macros records with at most MaxFields fields set, each to any string
MacrosRecords ==
    UNION {[K -> Str(MaxStrLen)] : K \in {X \in SUBSET MacroKeys : Cardinality(X) <= MaxFields}}
MacrosInputs == {None} \cup {Some(m) : m \in MacrosRecords}

FormatMacros ==
    /\ mac.stage = "input"
    /\ mac' = [mac EXCEPT !.stage = "formatted",
                          !.lines = formatMacrosForAppwrite(mac.macros)]
    /\ UNCHANGED <<accounts, session, profiles, recipes, nextId, proc, result, reqs, cfg, conv, form>>

ParseMacros ==
    /\ mac.stage = "formatted"
    /\ mac' = [mac EXCEPT !.stage = "parsed", !.out = parseMacros(mac.lines)]
    /\ UNCHANGED <<accounts, session, profiles, recipes, nextId, proc, result, reqs, cfg, conv, form>>

-----------------------------------------------------------------------------
(* Stored documents -> Recipe *)

\* an attribute of a stored document that should hold an array: the array, or
\* a value of another type
JsArray(v) == [type |-> "array", val |-> v]
JsOther(t) == [type |-> t, val |-> <<>>]
\* Array.isArray
IsArray(x) == x.type = "array"

\* `x || d` of an optional string
OrDefault(x, d) == IF x.def /\ x.val # "" THEN x.val ELSE d

\* the optional attributes convertDocumentToRecipe copies as they are
PlainFields == {"description", "prepTime", "cookTime", "totalTime", "servings",
                "difficulty", "reasoning", "userRating", "userNotes"}

\* a parseIngredients that trusts the attribute
parseIngredientsUnchecked(doc) ==
    IF IsArray(doc.ingredients) THEN doc.ingredients.val ELSE <<doc.ingredients.type>>

parseIngredients(doc) == IF IsArray(doc.ingredients) THEN doc.ingredients.val ELSE <<>>
parseTips(doc) == IF IsArray(doc.tipsJson) THEN doc.tipsJson.val ELSE <<>>

convertDocumentToRecipe(doc) ==
    [title |-> OrDefault(doc.title, "Untitled Recipe"),
     ingredients |-> parseIngredients(doc),
     instructions |-> OrDefault(doc.instructions, "No instructions provided."),
     macros |-> parseMacros(IF IsArray(doc.macrosJson)
                            THEN Some(doc.macrosJson.val) ELSE None),
     tips |-> parseTips(doc),
     tags |-> IF IsArray(doc.tags) THEN doc.tags.val ELSE <<>>,
     plain |-> doc.plain]

\* doc.macrosJson: no array, an empty one, one item, or two.  A stored line is
\* a label, recognised or not, then any string; some have white space in front
StoredMacros ==
    LET lines(n) == {<<l>> \o t : l \in {"Calories", "Energy", "Sugar"}, t \in Str(n)}
        padded(n) == lines(n) \cup {<<" ">> \o x : x \in lines(n)}
    IN {JsOther("undefined"), JsOther("string"), JsArray(<<>>)}
         \cup {JsArray(<<x>>) : x \in padded(MaxStrLen + 2) \cup {NumberItem}}
         \cup {JsArray(<<x, y>>) : x, y \in lines(MaxStrLen) \cup {NumberItem}}

\* doc.ingredients, doc.tipsJson, doc.tags: list-shaped or not
StoredLists ==
    {JsArray(<<>>), JsArray(<<"egg">>), JsArray(<<"egg", "milk">>),
     JsOther("undefined"), JsOther("null"), JsOther("string")}

BaseDoc ==
    [title |-> [def |-> TRUE, val |-> "T"],
     instructions |-> [def |-> TRUE, val |-> "S"],
     ingredients |-> JsArray(<<"egg">>),
     tipsJson |-> JsArray(<<>>),
     tags |-> JsArray(<<>>),
     macrosJson |-> JsOther("undefined"),
     plain |-> <<>>]

\* the stored documents of the model: every macrosJson on a well-formed
\* document, and every shape of the other attributes with a few macrosJson
StoredDocs ==
    {[BaseDoc EXCEPT !.macrosJson = m] : m \in StoredMacros}
      \cup {[title |-> t, instructions |-> i, ingredients |-> g, tipsJson |-> p,
             tags |-> JsArray(<<>>), macrosJson |-> m, plain |-> <<>>] :
               t \in OptStr({"", "T"}), i \in OptStr({"", "S"}),
               g \in StoredLists, p \in StoredLists,
               m \in {JsOther("null"), JsArray(<<<<"Sugar", ":", "a">>>>)}}
      \cup {[BaseDoc EXCEPT !.tags = g, !.plain = q] :
               g \in StoredLists,
               q \in {[k \in K |-> "x"] :
                         K \in {X \in SUBSET PlainFields : Cardinality(X) <= 1}}}

ConvIdle == [stage |-> "idle", doc |-> BaseDoc, out |-> Thrown(ENet)]

\* a stored document is converted
ConvertDocument ==
    /\ conv.stage = "stored"
    /\ conv' = [conv EXCEPT !.stage = "converted",
                            !.out = Returned(convertDocumentToRecipe(conv.doc))]
    /\ UNCHANGED <<accounts, session, profiles, recipes, nextId, proc, result, reqs,
                   mac, cfg, form>>

-----------------------------------------------------------------------------
(* SignupPage: the signup form *)

\* `password.length < 8`
MinPasswordLength == 8

\* useState('') of name and password, useState(null) of error; calls holds
\* the arguments of every signup(email, password, name) made, pending whether
\* the last one is still awaited, event the handler that ran last
FormIdle ==
    [name |-> "", password |-> <<>>, error |-> [def |-> FALSE, val |-> ""],
     calls |-> <<>>, pending |-> FALSE, event |-> "render"]

\* setName, setPassword: the user types a name and a password of n characters
TypeFields(n, name) ==
    /\ ~form.pending
    /\ form' = [form EXCEPT !.name = name, !.password = [i \in 1..n |-> "x"],
                            !.event = "type"]
    /\ UNCHANGED <<accounts, session, profiles, recipes, nextId, proc, result, reqs,
                   mac, cfg, conv>>

\* a handleSubmit that leaves the length to the backend
HandleSubmitUnchecked ==
    /\ ~form.pending
    /\ Len(form.calls) < MaxSubmits
    /\ form' = [form EXCEPT
                   !.error = [def |-> FALSE, val |-> ""],
                   !.calls = Append(@, [email |-> "u1", password |-> form.password,
                                       name |-> IF form.name # "" THEN form.name
                                                ELSE Undefined]),
                   !.pending = TRUE,
                   !.event = "submit"]
    /\ UNCHANGED <<accounts, session, profiles, recipes, nextId, proc, result, reqs,
                   mac, cfg, conv>>

\* handleSubmit up to its await: the error is cleared, a short password is
\* refused, otherwise signup is called
HandleSubmit ==
    /\ ~form.pending
    /\ Len(form.password) >= MinPasswordLength => Len(form.calls) < MaxSubmits
    /\ form' =
          IF Len(form.password) < MinPasswordLength
          THEN [form EXCEPT
                  !.error = [def |-> TRUE,
                             val |-> "Password must be at least 8 characters long"],
                  !.event = "submit"]
          ELSE [form EXCEPT
                  !.error = [def |-> FALSE, val |-> ""],
                  !.calls = Append(@, [email |-> "u1", password |-> form.password,
                                      name |-> IF form.name # "" THEN form.name
                                               ELSE Undefined]),
                  !.pending = TRUE,
                  !.event = "submit"]
    /\ UNCHANGED <<accounts, session, profiles, recipes, nextId, proc, result, reqs,
                   mac, cfg, conv>>

\* the awaited signup resolves, or rejects with an Error or with something else
SignupSettles(outcome) ==
    /\ form.pending
    /\ form' = [form EXCEPT
                   !.pending = FALSE,
                   !.event = "settle",
                   !.error = CASE outcome = "resolved" -> @
                               [] outcome = "Error" -> [def |-> TRUE, val |-> "signup failed"]
                               [] OTHER -> [def |-> TRUE,
                                            val |-> "An unexpected error occurred. Please try again."]]
    /\ UNCHANGED <<accounts, session, profiles, recipes, nextId, proc, result, reqs,
                   mac, cfg, conv>>

-----------------------------------------------------------------------------
(* Specifications *)

NoAccounts == [u \in {} |-> [name |-> "", password |-> ""]]
AllAccounts == [u \in Users |-> [name |-> "", password |-> GoodPassword]]
NoRecipes == [d \in {} |-> <<>>]

InitWith(accts, configs, macs) ==
    /\ accounts = accts
    /\ session = [c \in Clients |-> NoUser]
    /\ profiles = <<>>
    /\ recipes = NoRecipes
    /\ nextId = 1
    /\ proc = [c \in Clients |-> IdleProc]
    /\ result = NoResult
    /\ reqs = [c \in Clients |-> <<>>]
    /\ mac \in macs
    /\ cfg \in configs
    /\ conv = ConvIdle
    /\ form = FormIdle

\* the calls and steps of the authentication and profile functions
AuthCall(c) ==
    \/ GetCurrentUserCall(c)
    \/ \E u \in Users, pw \in Passwords : LoginUserCall(c, u, pw)
    \/ LogoutUserCall(c)
    \/ \E u \in Users, name \in Names : CreateUserAccountCall(c, u, GoodPassword, name)
    \/ GetUserProfileCall(c)
    \/ \E data \in ProfileUpdates : UpdateUserProfileCall(c, data)
    \/ ClearSavedIngredientsCall(c)

AuthStep(c, f) ==
    \/ GetCurrentUserStep(c, f)
    \/ LoginUserStep(c, f)
    \/ LogoutUserStep(c, f)
    \/ CreateUserAccountCreateStep(c, f)
    \/ CreateUserAccountSessionStep(c, f)
    \/ EnsureListStep(c, f)
    \/ EnsureCreateStep(c, f)
    \/ GetUserProfileUserStep(c, f)
    \/ GetUserProfileListStep(c, f)
    \/ UpdateUserProfileUserStep(c, f)
    \/ UpdateUserProfileUpdateStep(c, f)

\* the calls and steps of the recipe functions
RecipeCall(c) ==
    \/ \E recipe \in SaveInputs : SaveRecipeCall(c, recipe)
    \/ \E id \in DocIds, data \in UpdateInputs : UpdateRecipeCall(c, id, data)
    \/ \E options \in FetchOptions : FetchUserRecipesCall(c, options)
    \/ \E id \in DocIds : DeleteRecipeCall(c, id)
    \/ \E id \in DocIds : GetRecipeByIdCall(c, id)

RecipeStep(c, f) ==
    \/ SaveRecipeUserStep(c, f)
    \/ SaveRecipeCreateStep(c, f)
    \/ UpdateRecipeUserStep(c, f)
    \/ UpdateRecipeUpdateStep(c, f)
    \/ FetchUserRecipesUserStep(c, f)
    \/ FetchUserRecipesListStep(c, f)
    \/ DeleteRecipeUserStep(c, f)
    \/ DeleteRecipeDeleteStep(c, f)

\* the two fetches of one document by its id
RecipeFetchStep(c, f) ==
    \/ UpdateRecipeFetchStep(c, f)
    \/ GetRecipeByIdStep(c, f)

\* Spec: the authentication and profile functions, called one at a time (a
\* call starts when no other is running) against a backend that may fail; the
\* profile is also given saved ingredients, for clearSavedIngredients to clear
Init ==
    InitWith(NoAccounts, {k \in Configs : k.COLLECTION_SAVED_RECIPES}, {MacIdle})
Next ==
    \E c \in Clients :
        \/ AllIdle /\ AuthCall(c)
        \/ AllIdle /\ UpdateUserProfileCall(c, [savedIngredients |-> <<"egg">>])
        \/ \E f \in AuthFaults : AuthStep(c, f)
        \/ Return
Spec == Init /\ [][Next]_vars

\* SpecRace: the same functions called by two clients at once, each call
\* running between the awaits of the other, against a backend that works
InitRace == InitWith(NoAccounts, {FullConfig}, {MacIdle})
NextRace ==
    \E c \in Clients :
        \/ AuthCall(c)
        \/ AuthStep(c, "ok")
        \/ Return
SpecRace == InitRace /\ [][NextRace]_vars

\* SpecRecipes: the recipe functions, called one at a time from one browser by
\* signed-up users who log in and out
RecipeClients == {"c1"}
InitRecipes ==
    InitWith(AllAccounts, {k \in Configs : k.COLLECTION_USER_PROFILES}, {MacIdle})
NextRecipes ==
    \E c \in RecipeClients :
        \/ AllIdle /\ \E u \in Users : LoginUserCall(c, u, GoodPassword)
        \/ AllIdle /\ LogoutUserCall(c)
        \/ AllIdle /\ RecipeCall(c)
        \/ LoginUserStep(c, "ok")
        \/ LogoutUserStep(c, "ok")
        \/ \E f \in AuthFaults : RecipeStep(c, f)
        \/ \E f \in RecipeFaults : RecipeFetchStep(c, f)
        \/ Return
SpecRecipes == InitRecipes /\ [][NextRecipes]_vars

\* SpecMacros: formatMacrosForAppwrite, then parseMacros, on every input
InitMacros ==
    InitWith(NoAccounts, {FullConfig},
             {[MacIdle EXCEPT !.stage = "input", !.macros = m] : m \in MacrosInputs})
NextMacros == FormatMacros \/ ParseMacros
SpecMacros == InitMacros /\ [][NextMacros]_vars

\* the conversion of stored documents
InitConvert ==
    /\ accounts = NoAccounts
    /\ session = [c \in Clients |-> NoUser]
    /\ profiles = <<>>
    /\ recipes = NoRecipes
    /\ nextId = 1
    /\ proc = [c \in Clients |-> IdleProc]
    /\ result = NoResult
    /\ reqs = [c \in Clients |-> <<>>]
    /\ mac = MacIdle
    /\ cfg = FullConfig
    /\ conv \in {[ConvIdle EXCEPT !.stage = "stored", !.doc = d] : d \in StoredDocs}
    /\ form = FormIdle
SpecConvert == InitConvert /\ [][ConvertDocument]_vars

\* the signup form
InitSignup == InitWith(NoAccounts, {FullConfig}, {MacIdle})
NextSignup ==
    \/ \E n \in 0..MaxPasswordLen, name \in {"", "Ann"} : TypeFields(n, name)
    \/ HandleSubmit
    \/ \E outcome \in {"resolved", "Error", "other"} : SignupSettles(outcome)
SpecSignup == InitSignup /\ [][NextSignup]_vars

-----------------------------------------------------------------------------
(* Properties *)

Contains(seq, x) == \E i \in 1..Len(seq) : seq[i] = x
IsPrefix(a, b) == Len(a) <= Len(b) /\ a = SubSeq(b, 1, Len(a))
ProfilesOf(u) == {i \in 1..Len(profiles) : profiles[i].userId = u}

\* the completed call got a user from its account.get
Authenticated == Len(result.reqs) >= 2 \/ (Len(result.reqs) = 1 /\ result.answer.ok)

\* C1: the lookup and the create of ensureUserProfileExists are two requests:
\* a create is only ever issued by a call whose own lookup found no profile of
\* the user, and only such a call adds a profile document -- nothing else
\* keeps two clients from both doing so (C1_TwoProfilesOfOneUser is reached)
C1_CreateOnlyAfterEmptyLookup ==
    [][\A c \in Clients :
          /\ (proc[c].pc = "ensure_list" /\ proc'[c].pc = "ensure_create")
                => ProfilesOf(EnsureUserId(c)) = {}
          /\ (proc[c].pc = "ensure_create" /\ proc'[c].pc # "ensure_create")
                => /\ Len(profiles') = Len(profiles) + 1
                   /\ profiles'[Len(profiles')].userId = EnsureUserId(c)]_vars

\* C1: two profile documents carry the same userId
C1_TwoProfilesOfOneUser ==
    \E i, j \in 1..Len(profiles) : i # j /\ profiles[i].userId = profiles[j].userId

\* C2: createUserAccount issues account.create, account.createSession, then
\* the profile lookup and create, in this order; it throws only on a failure
\* of one of the first two, and once both have succeeded it returns the
\* created account whatever the profile step did
CreateOrder ==
    <<"account.create", "account.createSession",
      "listDocuments(userProfiles)", "createDocument(userProfiles)">>
C2_SignupOrderProfileFailureSwallowed ==
    /\ \A c \in Clients :
          proc[c].op = "createUserAccount" => IsPrefix(reqs[c], CreateOrder)
    /\ result.op = "createUserAccount" =>
          /\ IsPrefix(result.reqs, CreateOrder)
          /\ result.kind \in {"return", "throw"}
          /\ result.kind = "throw" =>
                /\ Len(result.reqs) <= 2
                /\ (Len(result.reqs) > 0 => ~result.answer.ok)
          /\ (Len(result.reqs) >= 3 \/ (Len(result.reqs) = 2 /\ result.answer.ok)) =>
                /\ result.kind = "return"
                /\ result.val = UserOf(result.arg.uid, OrEmpty(result.arg.name))
                /\ result.arg.uid \in DOMAIN accounts
                /\ session[result.client] = result.arg.uid

\* C2: an account was returned although the profile request failed
C2_ReturnedAfterProfileFailure ==
    /\ result.op = "createUserAccount"
    /\ Len(result.reqs) >= 3
    /\ ~result.answer.ok
    /\ result.kind = "return"
    /\ ProfilesOf(result.arg.uid) = {}

ValidationError ==
    DomainErr(<<"Cannot save recipe: Missing required fields (userId, title, ingredients, instructions).">>)

\* the completed call is a saveRecipe by a logged-in user of a recipe with a
\* title, instructions and an empty ingredients list
SavedEmptyIngredients ==
    /\ result.op = "saveRecipe"
    /\ Authenticated
    /\ result.arg.data["ingredients"] = <<>>
    /\ result.arg.data["title"] # ""
    /\ result.arg.data["instructions"] # ""

\* C3: saveRecipe with an empty ingredients list fails with the validation
\* error, sends no createDocument and stores no recipe
C3_EmptyIngredientsRejected ==
    SavedEmptyIngredients =>
        /\ result.kind = "throw"
        /\ result.val = ValidationError
        /\ ~Contains(result.reqs, "createDocument(recipes)")

\* C3: such a recipe was stored, a createDocument having been sent for it
C3_EmptyIngredientsStored ==
    /\ SavedEmptyIngredients
    /\ result.kind = "return"
    /\ result.reqs = <<"account.get", "createDocument(recipes)">>
    /\ \E d \in DOMAIN recipes :
          recipes[d] = result.val /\ recipes[d]["ingredients"] = <<>>

\* the update data whose payload is empty
EmptyUpdate(data) == Keys(prepareRecipePayload(data, Undefined)) = {}

\* C4: every step of an updateRecipe whose payload is empty leaves the stored
\* recipes as they are and issues no updateDocument; the call ends by
\* returning the document stored under the id, or, when the fetch of that
\* document fails, by throwing the failure of the fetch
C4_EmptyUpdateIsNoWrite ==
    [][\A c \in Clients :
          (proc[c].op = "updateRecipe" /\ EmptyUpdate(proc[c].arg.data)) =>
             /\ recipes' = recipes
             /\ ~Contains(reqs'[c], "updateDocument(recipes)")
             /\ (proc[c].pc = "upd_fetch" /\ result' # NoResult) =>
                   /\ ~Contains(result'.reqs, "updateDocument(recipes)")
                   /\ IF result'.answer.ok
                      THEN /\ result'.kind = "return"
                           /\ result'.arg.id \in DOMAIN recipes
                           /\ result'.val = recipes[result'.arg.id]
                      ELSE /\ result'.kind = "throw"
                           /\ result'.val = result'.answer.err]_vars

\* C4: an update whose data is not empty but whose payload is (it carries only
\* a userId, or empty macros) returned the stored document
C4_EmptyUpdateReturned ==
    /\ result.op = "updateRecipe"
    /\ EmptyUpdate(result.arg.data)
    /\ Keys(result.arg.data) # {}
    /\ result.kind = "return"
    /\ result.val = recipes[result.arg.id]

\* C5: a recipe document is created with the userId of the session of the
\* client that saves it, and no step changes the userId of a stored document
C5_OwnerImmutable ==
    [][/\ \A d \in DOMAIN recipes \cap DOMAIN recipes' :
             recipes'[d]["userId"] = recipes[d]["userId"]
       /\ \A d \in DOMAIN recipes' \ DOMAIN recipes :
             \E c \in Clients :
                /\ proc[c].op = "saveRecipe"
                /\ session[c] # NoUser
                /\ recipes'[d]["userId"] = session[c]]_vars

\* C5: an update whose data carries another user's id went through and the
\* document still belongs to the logged-in user who created it
C5_UpdateWithForeignUserId ==
    /\ result.op = "updateRecipe"
    /\ result.kind = "return"
    /\ "userId" \in Keys(result.arg.data)
    /\ "title" \in Keys(result.arg.data)
    /\ result.arg.id \in DOMAIN recipes
    /\ recipes[result.arg.id]["userId"] # result.arg.data["userId"]
    /\ recipes[result.arg.id]["title"] = result.arg.data["title"]

\* a macros value as a user types it: not empty, no space at either end
Trimmed(v) == v # <<>> /\ trim(v) = v

\* C6: a macros record with at least one field set, every set field a trimmed
\* non-empty text, comes back equal from formatMacrosForAppwrite then parseMacros
C6_MacrosRoundTrip ==
    (/\ mac.stage = "parsed"
     /\ mac.macros.def
     /\ Keys(mac.macros.val) # {}
     /\ \A k \in Keys(mac.macros.val) : Trimmed(mac.macros.val[k]))
        => mac.out = mac.macros

\* C6: a record whose only field holds a colon came back as no record at all
C6_ColonValueLost ==
    /\ mac.stage = "parsed"
    /\ mac.macros.def
    /\ Keys(mac.macros.val) = {"calories"}
    /\ Trimmed(mac.macros.val["calories"])
    /\ Contains(mac.macros.val["calories"], ":")
    /\ mac.lines.def
    /\ ~mac.out.def

\* C7: fetchUserRecipes never throws, and with no session, or when the
\* identity could not be fetched, it returns the empty list having sent
\* nothing but the account.get
C7_FetchUnauthenticatedIsEmpty ==
    result.op = "fetchUserRecipes" =>
        /\ result.kind = "return"
        /\ (session[result.client] = NoUser \/ ~Authenticated) =>
              /\ result.val = <<>>
              /\ result.reqs = <<"account.get">>

\* C7: a logged-out fetch returned the empty list while recipes are stored
C7_LoggedOutFetch ==
    /\ result.op = "fetchUserRecipes"
    /\ session[result.client] = NoUser
    /\ DOMAIN recipes # {}
    /\ result.val = <<>>

\* C8: getCurrentUser never throws; it returns the user of the session when
\* account.get succeeds and null on every failure of it, the 401 of a missing
\* session and any other failure alike
C8_CurrentUserNullOnAnyFailure ==
    result.op = "getCurrentUser" =>
        /\ result.kind = "return"
        /\ result.reqs = <<"account.get">>
        /\ IF result.answer.ok
           THEN /\ session[result.client] # NoUser
                /\ result.val = UserOfAccount(session[result.client])
           ELSE result.val = NullUser

\* C8: a logged-in client got null because account.get failed with something
\* other than 401
C8_NullWhileLoggedIn ==
    /\ result.op = "getCurrentUser"
    /\ session[result.client] # NoUser
    /\ ~result.answer.ok
    /\ result.answer.err.code # 401
    /\ result.val = NullUser

\* the completed call is a getRecipeById whose fetch the backend failed
FetchByIdFailed ==
    result.op = "getRecipeById" /\ result.reqs # <<>> /\ ~result.answer.ok

\* C9 as amended: a 401 AppwriteException becomes the no-permission error, a
\* 404 the not-found error, and every other failure (HTTP 403 included) the
\* generic error carrying the original message; the three differ
C9_UnauthorizedIsNoPermission ==
    FetchByIdFailed =>
        LET e == result.answer.err
            id == result.arg.id
            generic == DomainErr(<<"Failed to fetch recipe: ">> \o e.message)
        IN /\ result.kind = "throw"
           /\ NoPermissionMessage(id) # NotFoundMessage(id)
           /\ generic.message # NoPermissionMessage(id)
           /\ generic.message # NotFoundMessage(id)
           /\ result.val =
                 IF e.cls = "AppwriteException" /\ e.code = 404
                 THEN DomainErr(NotFoundMessage(id))
                 ELSE IF e.cls = "AppwriteException" /\ e.code = 401
                 THEN DomainErr(NoPermissionMessage(id))
                 ELSE generic

\* C9: a 401 was answered and the no-permission error thrown
C9_NoPermissionThrown ==
    /\ FetchByIdFailed
    /\ result.answer.err.code = 401
    /\ result.val = DomainErr(NoPermissionMessage(result.arg.id))

\* C9 as stated: a backend "forbidden" (HTTP 403) failure becomes the
\* no-permission error
C9_ForbiddenIsNoPermission ==
    (FetchByIdFailed /\ result.answer.err.code = 403) =>
        result.val = DomainErr(NoPermissionMessage(result.arg.id))

\* C10: when the backend answers the fetch with 404, getRecipeById throws an
\* Error whose message contains "not found" and the id
C10_NotFoundNamesTheId ==
    (FetchByIdFailed /\ result.answer.err.code = 404) =>
        /\ result.kind = "throw"
        /\ result.val.cls = "Error"
        /\ Contains(result.val.message, "not found")
        /\ Contains(result.val.message, ToString(result.arg.id))

\* C10: a fetch of an id nothing is stored under was answered with 404
C10_MissingDocumentFetched ==
    /\ FetchByIdFailed
    /\ result.answer.err.code = 404
    /\ result.arg.id \notin DOMAIN recipes
    /\ result.kind = "throw"

\* the completed call is the recipe operation op and the databases request it
\* made after its account.get failed
CrudFailed(op) ==
    result.op = op /\ Len(result.reqs) = 2 /\ ~result.answer.ok

\* new Error(`${prefix}${error instanceof Error ? error.message : 'Unknown database error'}`)
GenericError(prefix, e) ==
    DomainErr(<<prefix>> \o (IF e.cls \in {"AppwriteException", "TypeError", "Error"}
                            THEN e.message ELSE <<"Unknown database error">>))

NoRepeat(seq) == \A i, j \in 1..Len(seq) : seq[i] = seq[j] => i = j
CrudRequests == {"createDocument(recipes)", "updateDocument(recipes)",
                 "listDocuments(recipes)", "deleteDocument(recipes)"}
RecipeOps == {"saveRecipe", "updateRecipe", "fetchUserRecipes", "deleteRecipe"}

\* C11 as stated: a failed request of saveRecipe, updateRecipe,
\* fetchUserRecipes or deleteRecipe makes the call throw an Error with a
\* generic wrapped message, and no request is sent twice
C11_CrudFailureRethrown ==
    /\ \A op \in RecipeOps :
          (CrudFailed(op) /\ result.reqs[2] \in CrudRequests) =>
             /\ result.kind = "throw"
             /\ result.val.cls = "Error"
             /\ \E prefix \in {"Failed to save recipe: ", "Failed to update recipe: ",
                               "Failed to fetch recipes: ", "Failed to delete recipe: "} :
                   result.val = GenericError(prefix, result.answer.err)
    /\ result.op \in RecipeOps => NoRepeat(result.reqs)

\* C11 as amended: a failed createDocument, updateDocument or deleteDocument
\* is thrown as an Error with the operation's generic message wrapping the
\* original one; the failed fetch of an empty update is thrown as it is; a
\* failed listDocuments is swallowed and the empty list returned; and no call
\* sends a request twice
C11_WriteFailureRethrownListSwallowed ==
    /\ CrudFailed("saveRecipe") =>
          /\ result.kind = "throw"
          /\ result.val = GenericError("Failed to save recipe: ", result.answer.err)
    /\ CrudFailed("updateRecipe") =>
          /\ result.kind = "throw"
          /\ result.val = IF EmptyUpdate(result.arg.data)
                          THEN result.answer.err
                          ELSE GenericError("Failed to update recipe: ", result.answer.err)
    /\ CrudFailed("deleteRecipe") =>
          /\ result.kind = "throw"
          /\ result.val = GenericError("Failed to delete recipe: ", result.answer.err)
    /\ CrudFailed("fetchUserRecipes") =>
          /\ result.kind = "return"
          /\ result.val = <<>>
    /\ result.op \in RecipeOps => NoRepeat(result.reqs) /\ Len(result.reqs) <= 2
    /\ \A c \in Clients :
          proc[c].op \in RecipeOps => NoRepeat(reqs[c]) /\ Len(reqs[c]) <= 2

\* C11: an updateDocument for a stored document failed and the call threw
C11_UpdateFailureThrown ==
    /\ CrudFailed("updateRecipe")
    /\ ~EmptyUpdate(result.arg.data)
    /\ result.reqs = <<"account.get", "updateDocument(recipes)">>
    /\ result.kind = "throw"
    /\ result.arg.id \in DOMAIN recipes

\* C12: a getUserProfile or updateUserProfile (called directly, or by
\* clearSavedIngredients) of a logged-in user that the configured backend
\* answered without a failure leaves a profile document of that user in the
\* store, and no step removes a profile document or changes whose it is
C12_ProfileCreatedLazilyNeverDeleted ==
    [][/\ Len(profiles') >= Len(profiles)
       /\ \A i \in 1..Len(profiles) :
             /\ profiles'[i].id = profiles[i].id
             /\ profiles'[i].userId = profiles[i].userId
       /\ (/\ result' # result
           /\ result'.op \in {"getUserProfile", "updateUserProfile",
                             "clearSavedIngredients"}
           /\ result'.answer.ok
           /\ cfg = FullConfig
           /\ session[result'.client] # NoUser)
             => \E i \in 1..Len(profiles') :
                   profiles'[i].userId = session[result'.client]]_vars

\* C12: an updateUserProfile found no profile, created one and updated it
C12_ProfileCreatedOnFirstWrite ==
    /\ result.op = "updateUserProfile"
    /\ result.reqs = <<"account.get", "account.get", "listDocuments(userProfiles)",
                       "listDocuments(userProfiles)", "createDocument(userProfiles)",
                       "updateDocument(userProfiles)">>
    /\ result.kind = "return"
    /\ ProfilesOf(session[result.client]) # {}

\* C13: from its call to its completion a loginUser sends account.createSession
\* and nothing else, and leaves the profile documents (and the accounts) as
\* they are, whether the session is started or not
C13_LoginLeavesProfilesAlone ==
    [][\A c \in Clients :
          proc[c].op = "loginUser" =>
             /\ profiles' = profiles
             /\ accounts' = accounts
             /\ result'.op = "loginUser"
             /\ result'.client = c
             /\ result'.reqs = <<"account.createSession">>
             /\ result'.kind = IF result'.answer.ok THEN "return" ELSE "throw"
             /\ session'[c] = IF result'.answer.ok THEN proc[c].arg.uid ELSE session[c]]_vars

\* C13: a user without a profile document logged in and still has none
C13_LoggedInWithoutProfile ==
    /\ result.op = "loginUser"
    /\ result.kind = "return"
    /\ session[result.client] = result.arg.uid
    /\ ProfilesOf(result.arg.uid) = {}

\* C14: once its account.get is answered, deleteRecipe either sends the
\* deleteDocument for the given id or throws without sending it, and it throws
\* only because account.get gave no user ("Not authenticated.") or because the
\* collection is not configured: whose the document is plays no part
C14_DeleteSentWithoutOwnershipCheck ==
    [][\A c \in Clients :
          (proc[c].pc = "del_get" /\ proc'[c].pc # "del_get") =>
             IF proc'[c].pc = "del_delete"
             THEN /\ session[c] # NoUser
                  /\ reqs'[c] = <<"account.get", "deleteDocument(recipes)">>
                  /\ proc'[c].arg.id = proc[c].arg.id
             ELSE /\ result'.op = "deleteRecipe"
                  /\ result'.kind = "throw"
                  /\ result'.reqs = <<"account.get">>
                  /\ ~result'.answer.ok
                  /\ result'.answer.err # EMissing
                        => result'.val = DomainErr(<<"Not authenticated.">>)
                  /\ recipes' = recipes]_vars

\* C14: the delete of a recipe of another user has been sent
C14_DeleteOfForeignRecipeSent ==
    \E c \in Clients :
        /\ proc[c].pc = "del_delete"
        /\ reqs[c] = <<"account.get", "deleteDocument(recipes)">>
        /\ proc[c].arg.id \in DOMAIN recipes
        /\ recipes[proc[c].arg.id]["userId"] # proc[c].user.id

\* the stored macros of the converted document are one line: a string
OneLine ==
    /\ conv.stage = "converted"
    /\ IsArray(conv.doc.macrosJson)
    /\ Len(conv.doc.macrosJson.val) = 1
    /\ conv.doc.macrosJson.val[1] # NumberItem
TheLine == conv.doc.macrosJson.val[1]
\* the line cut at its first colon: the field its label names ("" when the
\* label is not recognised or there is no colon) and the text that follows
FieldOfLine(line) ==
    LET i == FirstColon(line, 1) IN
    IF i = 0 THEN "" ELSE MacroField(toLowerCase(trim(SubSeq(line, 1, i - 1))))
ValueOfLine(line) ==
    LET i == FirstColon(line, 1) IN trim(SubSeq(line, SkipSpaces(line, i + 1), Len(line)))

\* C15: a stored line with a recognised label is parsed into that field with
\* everything after its first separator as the value, a value that itself
\* contains a colon included
C15_SplitOnFirstSeparatorOnly ==
    (/\ OneLine
     /\ FieldOfLine(TheLine) # ""
     /\ Contains(ValueOfLine(TheLine), ":")
     /\ Head(ValueOfLine(TheLine)) = "a") =>
        /\ conv.out.val.macros.def
        /\ FieldOfLine(TheLine) \in Keys(conv.out.val.macros.val)
        /\ conv.out.val.macros.val[FieldOfLine(TheLine)] = ValueOfLine(TheLine)

\* C15: the line "Calories:a:a" was read and no macros came out of it
C15_ColonValueLineDropped ==
    /\ OneLine
    /\ TheLine = <<"Calories", ":", "a", ":", "a">>
    /\ ~conv.out.val.macros.def

\* the items of the stored macros that parseMacros reads: the strings with
\* exactly one colon and a recognised label before it
Colons(line) == Cardinality({i \in 1..Len(line) : line[i] = ":"})
ReadItems(items) ==
    {i \in 1..Len(items) :
        items[i] # NumberItem /\ Colons(items[i]) = 1 /\ FieldOfLine(items[i]) # ""}
\* the last item read for field f
LastFor(items, f) ==
    CHOOSE i \in ReadItems(items) :
        /\ FieldOfLine(items[i]) = f
        /\ \A j \in ReadItems(items) : FieldOfLine(items[j]) = f => j <= i

\* C16: convertDocumentToRecipe returns for every stored document; ingredients
\* and tips come back as stored when they are arrays and as the empty list
\* when they are not; the macros hold exactly the fields of the lines that are
\* one key and one value with a recognised label, every other item is
\* skipped, and there is no macros record when no line is read
C16_ConversionToleratesMalformedData ==
    conv.stage = "converted" =>
        LET doc == conv.doc
            out == conv.out.val
            items == IF IsArray(doc.macrosJson) THEN doc.macrosJson.val ELSE <<>>
            read == {FieldOfLine(items[i]) : i \in ReadItems(items)}
        IN /\ conv.out.kind = "return"
           /\ out.ingredients = IF doc.ingredients.type = "array"
                                THEN doc.ingredients.val ELSE <<>>
           /\ out.tips = IF doc.tipsJson.type = "array" THEN doc.tipsJson.val ELSE <<>>
           /\ out.macros.def <=> read # {}
           /\ Keys(out.macros.val) = read
           /\ \A f \in read : out.macros.val[f] = ValueOfLine(items[LastFor(items, f)])

\* C16: a document whose ingredients are no list and whose only macros line
\* has an unrecognised label was converted: no ingredients, no macros
C16_MalformedDocumentConverted ==
    /\ conv.stage = "converted"
    /\ conv.doc.ingredients.type = "string"
    /\ conv.doc.tipsJson.type = "null"
    /\ conv.doc.macrosJson = JsArray(<<<<"Sugar", ":", "a">>>>)
    /\ conv.out.val.ingredients = <<>>
    /\ ~conv.out.val.macros.def

\* C17: a submit with a password shorter than 8 characters sets the inline
\* error "Password must be at least 8 characters long" and calls nothing; a
\* signup call is only ever added by a submit whose password has at least 8
\* characters, with that password; every call made has such a password
C17_ShortPasswordNeverSignsUp ==
    [][/\ form'.event = "submit" =>
             IF Len(form.password) < 8
             THEN /\ form'.error = [def |-> TRUE,
                                    val |-> "Password must be at least 8 characters long"]
                  /\ form'.calls = form.calls
                  /\ ~form'.pending
             ELSE /\ Len(form'.calls) = Len(form.calls) + 1
                  /\ form'.calls[Len(form'.calls)].password = form.password
                  /\ form'.pending
       /\ form'.calls # form.calls =>
             /\ form'.event = "submit"
             /\ Len(form.password) >= 8
       /\ \A i \in 1..Len(form'.calls) : Len(form'.calls[i].password) >= 8]_vars

\* C17: a password of 7 characters was submitted after a signup had gone
\* through: the error is shown and no further call was made
C17_SevenCharactersRefused ==
    /\ form.event = "submit"
    /\ Len(form.password) = 7
    /\ form.error = [def |-> TRUE, val |-> "Password must be at least 8 characters long"]
    /\ Len(form.calls) = 1
    /\ ~form.pending

\* C18: when every profile operation runs to its end before the next one
\* starts, no user ever has more than one profile document, and a profile
\* document is only added by an ensureUserProfileExists whose lookup for that
\* user was answered with none
C18_OneProfilePerUserSequentially ==
    /\ \A u \in Users : Cardinality(ProfilesOf(u)) <= 1
    /\ \A c \in Clients :
          proc[c].pc = "ensure_create" =>
             /\ ProfilesOf(EnsureUserId(c)) = {}
             /\ reqs[c][Len(reqs[c]) - 1] = "listDocuments(userProfiles)"

\* C18: a getUserProfile found the one profile of its user, made by an earlier
\* call, and created nothing; the other user has a profile too
C18_SecondCallFindsTheProfile ==
    /\ result.op = "getUserProfile"
    /\ result.reqs = <<"account.get", "listDocuments(userProfiles)">>
    /\ result.kind = "return"
    /\ result.val.def
    /\ \A u \in Users : Cardinality(ProfilesOf(u)) = 1

\* C19: no step removes or changes an account; when createUserAccount's
\* createSession fails the call throws that failure, the account it created
\* stays, and neither a session nor a profile request nor a profile document
\* comes of it; when its account.create fails the call throws that failure
\* having sent nothing else
C19_NoRollbackOfCreatedAccount ==
    [][/\ \A u \in DOMAIN accounts : u \in DOMAIN accounts' /\ accounts'[u] = accounts[u]
       /\ \A c \in Clients :
             /\ (proc[c].pc = "cua_session" /\ result' # result /\ ~result'.answer.ok) =>
                   /\ result'.kind = "throw"
                   /\ result'.val = result'.answer.err
                   /\ result'.reqs = <<"account.create", "account.createSession">>
                   /\ proc[c].arg.uid \in DOMAIN accounts'
                   /\ accounts'[proc[c].arg.uid].password = proc[c].arg.pw
                   /\ session' = session
                   /\ profiles' = profiles
             /\ (proc[c].pc = "cua_create" /\ result' # result) =>
                   /\ ~result'.answer.ok
                   /\ result'.kind = "throw"
                   /\ result'.val = result'.answer.err
                   /\ result'.reqs = <<"account.create">>
                   /\ accounts' = accounts
                   /\ session' = session
                   /\ profiles' = profiles]_vars

\* C19: a createUserAccount threw on its createSession and left an account
\* with no session and no profile document
C19_AccountLeftWithoutSession ==
    /\ result.op = "createUserAccount"
    /\ result.reqs = <<"account.create", "account.createSession">>
    /\ ~result.answer.ok
    /\ result.kind = "throw"
    /\ result.arg.uid \in DOMAIN accounts
    /\ session[result.client] = NoUser
    /\ ProfilesOf(result.arg.uid) = {}

=============================================================================
